---- MODULE Spec2Model ----
(***************************************************************************)
(* State-machine model of src/bot.py: a license-key bot that stores its    *)
(* state in one SQLite file.  Every command handler is a coroutine that    *)
(* opens its own connection; handlers interleave at their await points,    *)
(* i.e. between any two SQL statements.  A connection's writes stay in its *)
(* own transaction (invisible to the others) until its commit, and are     *)
(* rolled back when the connection is closed without one.                  *)
(***************************************************************************)
EXTENDS Integers, Sequences, FiniteSets, TLC

\* ------------------------------------------------------------------ bounds
\* Number of command handlers that can be in flight at the same time.
NumHandlers == 2
\* Largest in-range amount tried by genkeys / sellauth_pushkeys.
MaxBatch == 2
\* Largest number of Redemption Records in the ledgers recentredemptions is
\* applied to in the ledger-reading specification.
MaxLedger == 21

\* ------------------------------------------------------- program constants
\* genkeys / sellauth_pushkeys: "if amount < 1 or amount > 50".
MIN_AMOUNT == 1
MAX_AMOUNT == 50
\* recentredemptions: "limit = max(1, min(20, limit))".
LIMIT_MIN == 1
LIMIT_MAX == 20
\* global_owner_lock: only this user passes the interaction check.
OWNER_ID == "owner"
\* "If False, the log channel only sees masked keys".
SHOW_FULL_KEY_IN_LOG_CHANNEL == FALSE

Handlers == 1..NumHandlers
NoWriter == 0
NULL == "NULL"

\* ------------------------------------------------------------------ strings
\* A string is a sequence of one-character strings.
SPACE == " "

\* str.upper() on one character.
UpperChar(c) ==
    CASE c = "a" -> "A"
      [] c = "b" -> "B"
      [] c = "c" -> "C"
      [] c = "v" -> "V"
      [] c = "p" -> "P"
      [] OTHER -> c

\* str.lower() on one character.
LowerChar(c) ==
    CASE c = "A" -> "a"
      [] c = "B" -> "b"
      [] c = "C" -> "c"
      [] c = "V" -> "v"
      [] c = "P" -> "p"
      [] OTHER -> c

str_upper(s) == [n \in 1..Len(s) |-> UpperChar(s[n])]
str_lower(s) == [n \in 1..Len(s) |-> LowerChar(s[n])]

RECURSIVE lstrip(_)
lstrip(s) == IF s # <<>> /\ Head(s) = SPACE THEN lstrip(Tail(s)) ELSE s

RECURSIVE rstrip(_)
rstrip(s) ==
    IF s # <<>> /\ s[Len(s)] = SPACE THEN rstrip(SubSeq(s, 1, Len(s) - 1)) ELSE s

\* str.strip()
str_strip(s) == rstrip(lstrip(s))

\* Mutant: the input is not stripped.
canon_unstripped(key) == str_upper(key)

\* key.strip().upper()  (redeem, lookupkey)
canon(key) == str_upper(str_strip(key))

\* Code of a character in the digest below (0 is kept for "no character").
CharCode(c) ==
    CASE c = "A" -> 1
      [] c = "B" -> 2
      [] c = "C" -> 3
      [] c = "a" -> 4
      [] c = "b" -> 5
      [] c = "c" -> 6
      [] c = SPACE -> 7
      [] OTHER -> 8

\* sha256_hex: a deterministic digest, collision-free on the strings of the
\* model (positional encoding in base 9 of the character codes).
RECURSIVE sha256_hex(_)
sha256_hex(s) == IF s = <<>> THEN 0 ELSE CharCode(Head(s)) + 9 * sha256_hex(Tail(s))

\* secrets.token_urlsafe(32): the raw tokens the generator can draw.  The
\* url-safe alphabet has both letter cases, so distinct raw tokens can give
\* the same key after upper().
Tokens == { <<"a">>, <<"A">>, <<"b">> }

\* generate_key() for a drawn raw token: (key, sha256_hex(key)).
generate_key(raw) ==
    LET key == str_upper(raw) IN <<key, sha256_hex(key)>>

\* re.sub(r"\s+", "-", name): whitespace runs collapse to one "-".
RECURSIVE collapse_ws(_)
collapse_ws(s) ==
    IF s = <<>> THEN <<>>
    ELSE IF Head(s) = SPACE
         THEN <<"-">> \o collapse_ws(lstrip(s))
         ELSE <<Head(s)>> \o collapse_ws(Tail(s))

\* [a-z0-9\-_] restricted to the characters of the model.
AllowedNameChars == {"a", "b", "c", "v", "p", "-", "_", "0", "1"}

\* re.sub(r"[^a-z0-9\-_]", "", name)
drop_illegal(s) == SelectSeq(s, LAMBDA c : c \in AllowedNameChars)

normalize_product_name(name) ==
    drop_illegal(collapse_ws(str_lower(str_strip(name))))


\* ------------------------------------------------------------------- inputs
\* Plaintext keys typed into /redeem and /lookupkey: a spelling of the key
\* "A" in the other letter case with a leading blank, and "c", which no
\* token generates.
KeyInputs == { <<SPACE, "a">>, <<"c">> }
\* The raw tokens and the typed keys of the canonicalization specification:
\* spellings that differ from a generated key by letter case, by leading
\* and/or trailing blanks, by a blank inside, or by a letter.
CanonTokens == { <<"a">>, <<"b">>, <<"a", "B">>, <<"B", "a">> }
CanonInputs ==
    { <<"a">>, <<"A", SPACE>>, <<SPACE, "B">>, <<SPACE, "b", SPACE>>,
      <<"a", "b">>, <<SPACE, "A", "b">>, <<"b", "A">>,
      <<"a", SPACE, "b">>, <<"c">>, <<"a", "a">> }
\* Product names typed into the product commands.
NameInputs == { <<"v">>, <<SPACE, "V", "!">> }
\* Amounts typed into /genkeys and /sellauth_pushkeys.
AmountInputs == {MIN_AMOUNT - 1, MAX_AMOUNT + 1} \cup (MIN_AMOUNT..MaxBatch)
\* SellAuth product / variant ids typed into /sellauth_link.
IdInputs == { <<"7", SPACE>> }
Users == {OWNER_ID, "other"}
\* The guild the commands of the all-commands specification are typed in,
\* and the guilds of the redemption-only specification.
Guilds == {"g1"}
AllGuilds == {"g1", "g2"}
Roles == {"r1"}
Channels == {"ch1"}
\* utc_now_str(): the readings of the clock a redemption can be stamped with
\* in the all-commands specification.
Times == {"t1"}
\* The readings of the clock in the ledger specification.
AllTimes == {"t1", "t2"}
\* Limits typed into /recentredemptions in the all-commands specification,
\* and in the ledger-reading specification.
Limits == {LIMIT_MIN - 1, LIMIT_MAX + 1}
AllLimits == (LIMIT_MIN - 2)..(LIMIT_MAX + 2)

\* -------------------------------------------------------------------- state
VARIABLES
    db,         \* the committed content of keys.db (init_db's five tables)
    txn,        \* the content seen by the connection holding the write lock
    wlock,      \* the handler whose connection holds SQLite's write lock
    pc,         \* pc[h]: the await point handler h is suspended at
    frame,      \* frame[h]: the local variables of handler h, and what it
                \* did to the outside (role added, embed sent, keys pushed)
    reply       \* reply[h]: what safe_send told the caller of handler h

vars == <<db, txn, wlock, pc, frame, reply>>

\* The tables of the committed store.
products == db.products
keys == db.keys
redemptions == db.redemptions
settings == db.settings
sellauth_map == db.sellauth_map

\* init_db: CREATE TABLE IF NOT EXISTS ... on a fresh file: five empty tables.
\* products, settings and sellauth_map are sets of rows (one per primary
\* key); keys and redemptions are kept in AUTOINCREMENT id order.
init_db ==
    [ products     |-> {},
      keys         |-> <<>>,
      redemptions  |-> <<>>,
      settings     |-> {},
      sellauth_map |-> {} ]

IdleFrame ==
    [ cmd          |-> "idle",
      user         |-> NULL,
      guild        |-> NULL,
      key          |-> <<>>,
      key_clean    |-> <<>>,
      key_hash     |-> 0,
      pname        |-> <<>>,
      role         |-> NULL,
      channel      |-> NULL,
      amount       |-> 0,
      out          |-> <<>>,
      product_name |-> <<>>,
      redeemed_flag |-> 0,
      rrow         |-> <<>>,
      rows         |-> {},
      limit        |-> 0,
      recent       |-> <<>>,
      role_id      |-> NULL,
      role_added   |-> FALSE,
      notified     |-> <<>>,
      pushed       |-> <<>>,
      ids          |-> <<>>,
      raised_at    |-> NULL ]

\* global_owner_lock: the interaction check every slash command passes first
\* (ALLOWED_GUILD_IDS is empty, so only the user is checked).
global_owner_lock(user) == user = OWNER_ID

\* ------------------------------------------------------------- SQL helpers
\* Mutant: the WHERE clause is lost, every row matches.
SelectKey_any(img, kh) == { n \in 1..Len(img.keys) : TRUE }

\* SELECT product_name, redeemed FROM keys WHERE key_hash=?  (fetchone):
\* the ids of the rows found.
SelectKey(img, kh) == { n \in 1..Len(img.keys) : img.keys[n].key_hash = kh }

\* Mutant: the UPDATE matches no row, the flag stays as it was.
UpdateRedeemed_none(img, kh) == img

\* UPDATE keys SET redeemed=1 WHERE key_hash=?
UpdateRedeemed(img, kh) ==
    [img EXCEPT !.keys =
        [n \in 1..Len(img.keys) |->
            IF img.keys[n].key_hash = kh
            THEN [img.keys[n] EXCEPT !.redeemed = 1]
            ELSE img.keys[n]]]

\* Mutant: INSERT OR REPLACE keyed on key_hash, the new row takes the place
\* of the rows of the same key.
InsertRedemption_replace(img, kh, pname, user, guild, now) ==
    [img EXCEPT !.redemptions =
        Append(SelectSeq(@, LAMBDA r : r.key_hash # kh),
               [key_hash |-> kh, product_name |-> pname,
                user_id |-> user, guild_id |-> guild,
                redeemed_at_utc |-> now])]

\* INSERT INTO redemptions (key_hash, product_name, user_id, guild_id,
\* redeemed_at_utc)
InsertRedemption(img, kh, pname, user, guild, now) ==
    [img EXCEPT !.redemptions =
        Append(@, [key_hash |-> kh, product_name |-> pname,
                   user_id |-> user, guild_id |-> guild,
                   redeemed_at_utc |-> now])]

\* INSERT INTO keys (key_hash, product_name, redeemed, ...) VALUES (?, ?, 0, ?)
InsertKey(img, kh, pname) ==
    [img EXCEPT !.keys =
        Append(@, [key_hash |-> kh, product_name |-> pname, redeemed |-> 0])]

\* key_hash TEXT UNIQUE NOT NULL: the insert above raises IntegrityError
\* when the hash is already in the table the connection sees.
UniqueViolation(img, kh) == SelectKey(img, kh) # {}

\* INSERT INTO products ... ON CONFLICT(name) DO UPDATE SET role_id=...
UpsertProduct(img, pname, role) ==
    [img EXCEPT !.products =
        {r \in @ : r.name # pname} \cup {[name |-> pname, role_id |-> role]}]

\* Mutant: the delete cascades to the keys that reference the product.
DeleteProduct_cascade(img, pname) ==
    [img EXCEPT !.products = {r \in @ : r.name # pname},
                !.keys = SelectSeq(@, LAMBDA r : r.product_name # pname)]

\* DELETE FROM products WHERE name=?
DeleteProduct(img, pname) ==
    [img EXCEPT !.products = {r \in @ : r.name # pname}]

\* INSERT INTO sellauth_map ... ON CONFLICT(product_name) DO UPDATE SET ...
UpsertMap(img, pname, pid, vid) ==
    [img EXCEPT !.sellauth_map =
        {r \in @ : r.product_name # pname} \cup
        {[product_name |-> pname, sellauth_product_id |-> pid,
          sellauth_variant_id |-> vid]}]

\* Mutant: the mapping rows are left in place.
DeleteMap_kept(img, pname) == img

\* DELETE FROM sellauth_map WHERE product_name=?
DeleteMap(img, pname) ==
    [img EXCEPT !.sellauth_map = {r \in @ : r.product_name # pname}]

\* set_log_channel_id's statement:
\* INSERT INTO settings ... ON CONFLICT(guild_id) DO UPDATE SET log_channel_id=...
UpsertSetting(img, guild, channel) ==
    [img EXCEPT !.settings =
        {r \in @ : r.guild_id # guild} \cup
        {[guild_id |-> guild, log_channel_id |-> channel]}]

\* get_product: SELECT name, role_id FROM products WHERE name=? on a
\* connection of its own, so it reads the committed store.  The rows found.
get_product(pname) == {r \in db.products : r.name = pname}

\* Mutant: the WHERE guild_id=? is lost, any guild's row is read.
get_log_channel_id_any_guild(guild) ==
    LET rows == db.settings
    IN IF rows = {} THEN NULL ELSE (CHOOSE r \in rows : TRUE).log_channel_id

\* get_log_channel_id: "row[0] if row and row[0] else None".
get_log_channel_id(guild) ==
    LET rows == {r \in db.settings : r.guild_id = guild}
    IN IF rows = {} THEN NULL ELSE (CHOOSE r \in rows : TRUE).log_channel_id

\* SELECT sellauth_product_id, sellauth_variant_id FROM sellauth_map WHERE ...
SelectMap(img, pname) == {r \in img.sellauth_map : r.product_name = pname}

\* --------------------------------------------------------- connection steps
\* A handler can run a writing statement when no other connection holds the
\* write lock (otherwise the statement waits in its connection's thread).
CanWrite(h) == wlock \in {NoWriter, h}

\* Mutant: the connection is in autocommit mode, every writing statement is
\* committed on its own.
Write_autocommit(h, img) ==
    /\ CanWrite(h)
    /\ txn' = img
    /\ wlock' = NoWriter
    /\ db' = img

\* A writing statement: the connection takes the write lock (sqlite3 opens
\* the transaction before the first INSERT/UPDATE/DELETE) and changes its
\* own view only.
Write(h, img) ==
    /\ CanWrite(h)
    /\ txn' = img
    /\ wlock' = h
    /\ db' = db

\* db.commit(): the connection's view becomes the committed store.
Commit(h) ==
    /\ db' = IF wlock = h THEN txn ELSE db
    /\ wlock' = IF wlock = h THEN NoWriter ELSE wlock
    /\ txn' = txn

\* Mutant: closing the connection commits its open transaction.
Close_commits(h) ==
    /\ db' = IF wlock = h THEN txn ELSE db
    /\ txn' = txn
    /\ wlock' = IF wlock = h THEN NoWriter ELSE wlock

\* Leaving "async with aiosqlite.connect(...)" without a commit: the
\* connection is closed and its open transaction is rolled back.
Close(h) ==
    /\ db' = db
    /\ txn' = IF wlock = h THEN db ELSE txn
    /\ wlock' = IF wlock = h THEN NoWriter ELSE wlock

\* Handler h moves to await point l with its locals changed to f.
Goto(h, l, f) ==
    /\ pc' = [pc EXCEPT ![h] = l]
    /\ frame' = [frame EXCEPT ![h] = f]

\* Handler h returns after safe_send(msg).
Return(h, msg, f) ==
    /\ Goto(h, "done", f)
    /\ reply' = [reply EXCEPT ![h] = msg]

\* Exception exc leaves handler h at its current await point: nothing is
\* sent to the caller.
Raise(h, exc) ==
    /\ Goto(h, "done", [frame[h] EXCEPT !.raised_at = pc[h]])
    /\ reply' = [reply EXCEPT ![h] = exc]

Init ==
    /\ db = init_db
    /\ txn = init_db
    /\ wlock = NoWriter
    /\ pc = [h \in Handlers |-> "idle"]
    /\ frame = [h \in Handlers |-> IdleFrame]
    /\ reply = [h \in Handlers |-> NULL]


\* ------------------------------------------------------------------ redeem
\* mask_key: the key as shown in the log channel.
mask_key(key) ==
    LET k == canon(key)
    IN IF Len(k) <= 10 THEN k
       ELSE SubSeq(k, 1, 4) \o <<".", ".", ".">> \o SubSeq(k, Len(k) - 3, Len(k))

\* Mutant: the flag is compared with a value it never has.
AlreadyUsed_never(row) == row.redeemed = 2

\* "if redeemed_flag == 1" on the row the SELECT returned.
AlreadyUsed(row) == row.redeemed = 1

\* /redeem is invoked in one of the guilds: key_clean and key_hash are
\* computed.
redeem_keys(h, guilds, typed) ==
    /\ pc[h] = "idle"
    /\ \E user \in Users, guild \in guilds, key \in typed :
        /\ global_owner_lock(user)
        /\ Goto(h, "redeem_select",
                [IdleFrame EXCEPT !.cmd = "redeem", !.user = user,
                                  !.guild = guild,
                                  !.key = key,
                                  !.key_clean = canon(key),
                                  !.key_hash = sha256_hex(canon(key))])
    /\ UNCHANGED <<db, txn, wlock, reply>>

redeem_in(h, guilds) == redeem_keys(h, guilds, KeyInputs)

redeem(h) == redeem_in(h, Guilds)

\* SELECT product_name, redeemed FROM keys WHERE key_hash=? and the two
\* early returns.
redeem_select(h) ==
    /\ pc[h] = "redeem_select"
    /\ LET rows == SelectKey(db, frame[h].key_hash)
       IN IF rows = {}
          THEN Return(h, "Invalid key", frame[h])
          ELSE LET row == db.keys[CHOOSE n \in rows : TRUE]
               IN IF AlreadyUsed(row)
                  THEN Return(h, "already used", frame[h])
                  ELSE /\ Goto(h, "redeem_update",
                               [frame[h] EXCEPT
                                   !.product_name = row.product_name,
                                   !.redeemed_flag = row.redeemed])
                       /\ reply' = reply
    /\ UNCHANGED <<db, txn, wlock>>

\* UPDATE keys SET redeemed=1 WHERE key_hash=?
redeem_update(h) ==
    /\ pc[h] = "redeem_update"
    /\ Write(h, UpdateRedeemed(txn, frame[h].key_hash))
    /\ Goto(h, "redeem_insert", frame[h])
    /\ UNCHANGED <<reply>>

\* INSERT INTO redemptions ..., stamped with utc_now_str(), one of times.
redeem_insert_at(h, times) ==
    /\ pc[h] = "redeem_insert"
    /\ \E now \in times :
          Write(h, InsertRedemption(txn, frame[h].key_hash,
                                    frame[h].product_name,
                                    frame[h].user, frame[h].guild, now))
    /\ Goto(h, "redeem_commit", frame[h])
    /\ UNCHANGED <<reply>>

redeem_insert(h) == redeem_insert_at(h, Times)

\* await db.commit()
redeem_commit(h) ==
    /\ pc[h] = "redeem_commit"
    /\ Commit(h)
    /\ Goto(h, "redeem_get_product", frame[h])
    /\ UNCHANGED <<reply>>

\* prod = await get_product(product_name); role_id = prod[1] if prod else None
redeem_get_product(h) ==
    /\ pc[h] = "redeem_get_product"
    /\ LET prod == get_product(frame[h].product_name)
           role_id == IF prod = {} THEN NULL
                      ELSE (CHOOSE r \in prod : TRUE).role_id
       IN Goto(h, IF role_id # NULL THEN "redeem_add_roles" ELSE "redeem_send",
               [frame[h] EXCEPT !.role_id = role_id])
    /\ UNCHANGED <<db, txn, wlock, reply>>

\* The role grant: guild.get_role, get_member and member.add_roles can each
\* come back empty or raise; role_added tells whether role_id was added to
\* user in guild.
redeem_add_roles(h) ==
    /\ pc[h] = "redeem_add_roles"
    /\ \E ok \in BOOLEAN :
        Goto(h, "redeem_send", [frame[h] EXCEPT !.role_added = ok])
    /\ UNCHANGED <<db, txn, wlock, reply>>

\* Mutant: a product with a role always reports the role as added.
redeem_msg_unflagged(f) ==
    IF f.role_id # NULL THEN "Redeemed, role added" ELSE "Redeemed"

\* The message of the final safe_send.
redeem_msg(f) ==
    IF f.role_id # NULL /\ f.role_added THEN "Redeemed, role added"
    ELSE IF f.role_id # NULL /\ ~f.role_added THEN "Redeemed, could not add role"
    ELSE "Redeemed"

\* await safe_send(i, msg, True)
redeem_send(h) ==
    /\ pc[h] = "redeem_send"
    /\ reply' = [reply EXCEPT ![h] = redeem_msg(frame[h])]
    /\ Goto(h, "log_redeem", frame[h])
    /\ UNCHANGED <<db, txn, wlock>>

\* log_redeem: log_channel_id = await get_log_channel_id(guild.id)
log_redeem(h) ==
    /\ pc[h] = "log_redeem"
    /\ LET log_channel_id == get_log_channel_id(frame[h].guild)
       IN IF log_channel_id = NULL
          THEN Goto(h, "done", frame[h])
          ELSE Goto(h, "log_redeem_send",
                    [frame[h] EXCEPT !.channel = log_channel_id])
    /\ UNCHANGED <<db, txn, wlock, reply>>

\* log_redeem: the channel may not resolve and channel.send may raise
\* (swallowed); otherwise the embed (user, product, shown key, hash of the
\* frame) is delivered to the channel and recorded in frame[h].notified.
log_redeem_send(h) ==
    /\ pc[h] = "log_redeem_send"
    /\ \E ok \in BOOLEAN :
        Goto(h, "done",
             [frame[h] EXCEPT !.notified =
                 IF ok
                 THEN <<[channel |-> frame[h].channel,
                         key |-> IF SHOW_FULL_KEY_IN_LOG_CHANNEL
                                 THEN frame[h].key_clean
                                 ELSE mask_key(frame[h].key_clean)]>>
                 ELSE <<>>])
    /\ UNCHANGED <<db, txn, wlock, reply>>


\* ------------------------------------------------------------ setlogchannel
\* /setlogchannel in one of the guilds: set_log_channel_id's
\* INSERT ... ON CONFLICT.
setlogchannel_in(h, guilds) ==
    /\ pc[h] = "idle"
    /\ \E user \in Users, guild \in guilds, channel \in Channels \cup {NULL} :
        /\ global_owner_lock(user)
        /\ Write(h, UpsertSetting(txn, guild, channel))
        /\ Goto(h, "setlogchannel_commit",
                [IdleFrame EXCEPT !.cmd = "setlogchannel", !.user = user,
                                  !.guild = guild, !.channel = channel])
    /\ UNCHANGED <<reply>>

setlogchannel(h) == setlogchannel_in(h, Guilds)

\* set_log_channel_id's commit, then the confirmation.
setlogchannel_commit(h) ==
    /\ pc[h] = "setlogchannel_commit"
    /\ Commit(h)
    /\ Return(h, IF frame[h].channel # NULL THEN "Log channel set"
                 ELSE "Log channel disabled", frame[h])

\* ------------------------------------------------------------- product_add
\* /product_add: INSERT INTO products ... ON CONFLICT(name) DO UPDATE.
product_add(h) ==
    /\ pc[h] = "idle"
    /\ \E user \in Users, name \in NameInputs, role \in Roles \cup {NULL} :
        /\ global_owner_lock(user)
        /\ LET pname == normalize_product_name(name)
           IN /\ Write(h, UpsertProduct(txn, pname, role))
              /\ Goto(h, "product_add_commit",
                      [IdleFrame EXCEPT !.cmd = "product_add", !.user = user,
                                        !.pname = pname, !.role = role])
    /\ UNCHANGED <<reply>>

product_add_commit(h) ==
    /\ pc[h] = "product_add_commit"
    /\ Commit(h)
    /\ Return(h, "Product saved", frame[h])

\* ---------------------------------------------------------- product_remove
\* /product_remove: DELETE FROM products WHERE name=?
product_remove(h) ==
    /\ pc[h] = "idle"
    /\ \E user \in Users, name \in NameInputs :
        /\ global_owner_lock(user)
        /\ LET pname == normalize_product_name(name)
           IN /\ Write(h, DeleteProduct(txn, pname))
              /\ Goto(h, "product_remove_map",
                      [IdleFrame EXCEPT !.cmd = "product_remove",
                                        !.user = user, !.pname = pname])
    /\ UNCHANGED <<reply>>

\* DELETE FROM sellauth_map WHERE product_name=?
product_remove_map(h) ==
    /\ pc[h] = "product_remove_map"
    /\ Write(h, DeleteMap(txn, frame[h].pname))
    /\ Goto(h, "product_remove_commit", frame[h])
    /\ UNCHANGED <<reply>>

product_remove_commit(h) ==
    /\ pc[h] = "product_remove_commit"
    /\ Commit(h)
    /\ Return(h, "Product removed", frame[h])

\* ----------------------------------------------------------------- genkeys
\* "if amount < 1 or amount > 50"
AmountOutOfRange(amount) == amount < MIN_AMOUNT \/ amount > MAX_AMOUNT

\* /genkeys is invoked: the amount check.
genkeys(h) ==
    /\ pc[h] = "idle"
    /\ \E user \in Users, product \in NameInputs, amount \in AmountInputs :
        /\ global_owner_lock(user)
        /\ LET f == [IdleFrame EXCEPT !.cmd = "genkeys", !.user = user,
                         !.pname = normalize_product_name(product),
                         !.amount = amount]
           IN IF AmountOutOfRange(amount)
              THEN Return(h, "Amount must be 1-50", f)
              ELSE Goto(h, "genkeys_get_product", f) /\ reply' = reply
    /\ UNCHANGED <<db, txn, wlock>>

\* prod = await get_product(pname); "if not prod".
genkeys_get_product(h) ==
    /\ pc[h] = "genkeys_get_product"
    /\ IF get_product(frame[h].pname) = {}
       THEN Return(h, "Product not found", frame[h])
       ELSE Goto(h, "genkeys_insert", frame[h]) /\ reply' = reply
    /\ UNCHANGED <<db, txn, wlock>>

\* One iteration of "for _ in range(amount)": generate_key() and the INSERT
\* (shared by genkeys and sellauth_pushkeys).  A hash already in the table
\* raises IntegrityError, which leaves the handler and closes the connection.
InsertLoop(h, insertpc, commitpc) ==
    /\ pc[h] = insertpc
    /\ CanWrite(h)
    /\ \E raw \in Tokens :
        LET k == generate_key(raw)[1]
            kh == generate_key(raw)[2]
        IN IF UniqueViolation(txn, kh)
           THEN Close(h) /\ Raise(h, "IntegrityError")
           ELSE /\ Write(h, InsertKey(txn, kh, frame[h].pname))
                /\ Goto(h, IF Len(frame[h].out) + 1 = frame[h].amount
                           THEN commitpc ELSE insertpc,
                        [frame[h] EXCEPT !.out = Append(@, k)])
                /\ reply' = reply

genkeys_insert(h) == InsertLoop(h, "genkeys_insert", "genkeys_commit")

\* await db.commit(), then the plaintext keys are sent to the caller.
genkeys_commit(h) ==
    /\ pc[h] = "genkeys_commit"
    /\ Commit(h)
    /\ Return(h, "Generated", frame[h])

\* ----------------------------------------------------------- sellauth_link
sellauth_link(h) ==
    /\ pc[h] = "idle"
    /\ \E user \in Users, product \in NameInputs,
          pid \in IdInputs, vid \in IdInputs :
        /\ global_owner_lock(user)
        /\ LET f == [IdleFrame EXCEPT !.cmd = "sellauth_link", !.user = user,
                         !.pname = normalize_product_name(product),
                         !.ids = <<str_strip(pid), str_strip(vid)>>]
           IN Goto(h, "sellauth_link_get_product", f)
    /\ UNCHANGED <<db, txn, wlock, reply>>

\* prod = await get_product(pname); "if not prod".
sellauth_link_get_product(h) ==
    /\ pc[h] = "sellauth_link_get_product"
    /\ IF get_product(frame[h].pname) = {}
       THEN Return(h, "Product not found", frame[h])
       ELSE Goto(h, "sellauth_link_insert", frame[h]) /\ reply' = reply
    /\ UNCHANGED <<db, txn, wlock>>

\* INSERT INTO sellauth_map ... ON CONFLICT(product_name) DO UPDATE
sellauth_link_insert(h) ==
    /\ pc[h] = "sellauth_link_insert"
    /\ Write(h, UpsertMap(txn, frame[h].pname, frame[h].ids[1], frame[h].ids[2]))
    /\ Goto(h, "sellauth_link_commit", frame[h])
    /\ UNCHANGED <<reply>>

sellauth_link_commit(h) ==
    /\ pc[h] = "sellauth_link_commit"
    /\ Commit(h)
    /\ Return(h, "Linked", frame[h])

\* ------------------------------------------------------- sellauth_pushkeys
sellauth_pushkeys(h) ==
    /\ pc[h] = "idle"
    /\ \E user \in Users, product \in NameInputs, amount \in AmountInputs :
        /\ global_owner_lock(user)
        /\ LET f == [IdleFrame EXCEPT !.cmd = "sellauth_pushkeys",
                         !.user = user,
                         !.pname = normalize_product_name(product),
                         !.amount = amount]
           IN IF AmountOutOfRange(amount)
              THEN Return(h, "Amount must be 1-50", f)
              ELSE Goto(h, "sellauth_pushkeys_select", f) /\ reply' = reply
    /\ UNCHANGED <<db, txn, wlock>>

\* SELECT ... FROM sellauth_map WHERE product_name=?; "if not m".
sellauth_pushkeys_select(h) ==
    /\ pc[h] = "sellauth_pushkeys_select"
    /\ LET m == SelectMap(db, frame[h].pname)
       IN IF m = {}
          THEN Return(h, "Not linked", frame[h])
          ELSE LET row == CHOOSE r \in m : TRUE
               IN /\ Goto(h, "sellauth_pushkeys_insert",
                          [frame[h] EXCEPT !.ids = <<row.sellauth_product_id,
                                                     row.sellauth_variant_id>>])
                  /\ reply' = reply
    /\ UNCHANGED <<db, txn, wlock>>

sellauth_pushkeys_insert(h) ==
    InsertLoop(h, "sellauth_pushkeys_insert", "sellauth_pushkeys_commit")

\* Mutant: the commit after the loop is missing; leaving the "async with"
\* block closes the connection and the inserts are rolled back.
sellauth_pushkeys_commit_missing(h) ==
    /\ pc[h] = "sellauth_pushkeys_commit"
    /\ Close(h)
    /\ Goto(h, "sellauth_append_deliverables", frame[h])
    /\ UNCHANGED <<reply>>

\* await db.commit(): the batch is committed before the push is tried.
sellauth_pushkeys_commit(h) ==
    /\ pc[h] = "sellauth_pushkeys_commit"
    /\ Commit(h)
    /\ Goto(h, "sellauth_append_deliverables", frame[h])
    /\ UNCHANGED <<reply>>

\* sellauth_append_deliverables: the PUT succeeds, or raises RuntimeError
\* (missing SELLAUTH_TOKEN / SELLAUTH_SHOP_ID, status >= 300), which
\* sellauth_pushkeys reports as "SellAuth push failed".
sellauth_append_deliverables(h) ==
    /\ pc[h] = "sellauth_append_deliverables"
    /\ \E ok \in BOOLEAN :
        IF ok
        THEN Return(h, "Pushed", [frame[h] EXCEPT !.pushed = frame[h].out])
        ELSE Return(h, "SellAuth push failed", frame[h])
    /\ UNCHANGED <<db, txn, wlock>>

\* --------------------------------------------------------------- lookupkey
lookupkey_keys(h, typed) ==
    /\ pc[h] = "idle"
    /\ \E user \in Users, key \in typed :
        /\ global_owner_lock(user)
        /\ Goto(h, "lookupkey_select",
                [IdleFrame EXCEPT !.cmd = "lookupkey", !.user = user,
                                  !.key = key,
                                  !.key_clean = canon(key),
                                  !.key_hash = sha256_hex(canon(key))])
    /\ UNCHANGED <<db, txn, wlock, reply>>

lookupkey(h) == lookupkey_keys(h, KeyInputs)

\* SELECT product_name, redeemed FROM keys WHERE key_hash=?; "if not krow".
lookupkey_select(h) ==
    /\ pc[h] = "lookupkey_select"
    /\ LET rows == SelectKey(db, frame[h].key_hash)
       IN IF rows = {}
          THEN Return(h, "Key not found", frame[h])
          ELSE LET krow == db.keys[CHOOSE n \in rows : TRUE]
               IN /\ Goto(h, "lookupkey_select_log",
                          [frame[h] EXCEPT
                              !.product_name = krow.product_name,
                              !.redeemed_flag = krow.redeemed])
                  /\ reply' = reply
    /\ UNCHANGED <<db, txn, wlock>>

\* SELECT ... FROM redemptions WHERE key_hash=? ORDER BY id DESC LIMIT 1
latest_for_hash(img, kh) ==
    LET ids == { n \in 1..Len(img.redemptions) :
                    img.redemptions[n].key_hash = kh }
    IN IF ids = {} THEN <<>>
       ELSE <<img.redemptions[CHOOSE n \in ids : \A m \in ids : m <= n]>>

\* Mutant: the test of the flag is inverted.
lookup_msg_inverted(redeemed_flag, rrow) ==
    IF redeemed_flag # 0 THEN "UNUSED"
    ELSE IF rrow = <<>> THEN "Marked USED but no log found"
    ELSE "USED"

\* The three outcomes of lookupkey after its two SELECTs: "if redeemed_flag
\* == 0", "if not rrow", and the USED message that shows rrow.
lookup_msg(redeemed_flag, rrow) ==
    IF redeemed_flag = 0 THEN "UNUSED"
    ELSE IF rrow = <<>> THEN "Marked USED but no log found"
    ELSE "USED"

\* The second SELECT (it runs whatever the flag was) and the message.
lookupkey_select_log(h) ==
    /\ pc[h] = "lookupkey_select_log"
    /\ LET rrow == latest_for_hash(db, frame[h].key_hash)
       IN Return(h, lookup_msg(frame[h].redeemed_flag, rrow),
                 [frame[h] EXCEPT !.rrow = rrow])
    /\ UNCHANGED <<db, txn, wlock>>

\* ---------------------------------------------------------------- keystats
\* SELECT product_name, SUM(CASE WHEN redeemed=1 ...) AS used,
\*        SUM(CASE WHEN redeemed=0 ...) AS unused, COUNT(*) AS total
\* FROM keys GROUP BY product_name: one row per product name that has a key
\* (ORDER BY product_name only fixes the order the rows are printed in).
key_stats(img) ==
    LET ids == 1..Len(img.keys)
    IN { [ product_name |-> p,
           used   |-> Cardinality({n \in ids : /\ img.keys[n].product_name = p
                                               /\ img.keys[n].redeemed = 1}),
           unused |-> Cardinality({n \in ids : /\ img.keys[n].product_name = p
                                               /\ img.keys[n].redeemed = 0}),
           total  |-> Cardinality({n \in ids : img.keys[n].product_name = p}) ]
         : p \in {img.keys[n].product_name : n \in ids} }

\* /keystats: the one SELECT of the handler and its answer.
keystats(h) ==
    /\ pc[h] = "idle"
    /\ \E user \in Users :
        /\ global_owner_lock(user)
        /\ LET rows == key_stats(db)
           IN Return(h, IF rows = {} THEN "No keys in database." ELSE "Stats",
                     [IdleFrame EXCEPT !.cmd = "keystats", !.user = user,
                                       !.rows = rows])
    /\ UNCHANGED <<db, txn, wlock>>

\* ------------------------------------------------------- recentredemptions
max(a, b) == IF a >= b THEN a ELSE b
min(a, b) == IF a <= b THEN a ELSE b

\* Mutant: the upper end of the clamp is lost.
clamp_limit_unbounded(limit) == max(LIMIT_MIN, limit)

\* limit = max(1, min(20, limit))
clamp_limit(limit) == max(LIMIT_MIN, min(LIMIT_MAX, limit))

\* SELECT ... FROM redemptions ORDER BY id DESC LIMIT ?  (a negative LIMIT
\* is no limit in SQLite): the rows from the highest id down.
recent(img, limit) ==
    LET n == Len(img.redemptions)
        k == IF limit < 0 THEN n ELSE min(limit, n)
    IN [a \in 1..k |-> img.redemptions[n + 1 - a]]

\* /recentredemptions with a limit of limits: the clamp, the one SELECT of
\* the handler and its answer.
recentredemptions_in(h, limits) ==
    /\ pc[h] = "idle"
    /\ \E user \in Users, limit \in limits :
        /\ global_owner_lock(user)
        /\ LET rows == recent(db, clamp_limit(limit))
           IN Return(h, IF rows = <<>> THEN "No redemptions yet." ELSE "Recent",
                     [IdleFrame EXCEPT !.cmd = "recentredemptions",
                                       !.user = user, !.limit = limit,
                                       !.recent = rows])
    /\ UNCHANGED <<db, txn, wlock>>

recentredemptions(h) == recentredemptions_in(h, Limits)

\* ------------------------------------------------------------ store faults
\* The await points whose next statement writes to the store or commits.
WritePcs ==
    { "redeem_update", "redeem_insert", "redeem_commit",
      "setlogchannel_commit", "product_add_commit",
      "product_remove_map", "product_remove_commit",
      "genkeys_insert", "genkeys_commit",
      "sellauth_link_insert", "sellauth_link_commit",
      "sellauth_pushkeys_insert", "sellauth_pushkeys_commit" }

\* A writing statement or a commit raises (sqlite3.OperationalError: the
\* database stayed locked for the whole busy timeout, an I/O error, ...).
\* The exception leaves the "async with" block, which closes the connection.
StoreFail(h) ==
    /\ pc[h] \in WritePcs
    /\ Close(h)
    /\ Raise(h, "OperationalError")

\* The interaction is over; the handler slot can serve the next command.
Finish(h) ==
    /\ pc[h] = "done"
    /\ pc' = [pc EXCEPT ![h] = "idle"]
    /\ frame' = [frame EXCEPT ![h] = IdleFrame]
    /\ reply' = [reply EXCEPT ![h] = NULL]
    /\ UNCHANGED <<db, txn, wlock>>

Next ==
    \E h \in Handlers :
        \/ redeem(h) \/ redeem_select(h) \/ redeem_update(h)
        \/ redeem_insert(h) \/ redeem_commit(h) \/ redeem_get_product(h)
        \/ redeem_add_roles(h) \/ redeem_send(h)
        \/ log_redeem(h) \/ log_redeem_send(h)
        \/ setlogchannel(h) \/ setlogchannel_commit(h)
        \/ product_add(h) \/ product_add_commit(h)
        \/ product_remove(h) \/ product_remove_map(h) \/ product_remove_commit(h)
        \/ genkeys(h) \/ genkeys_get_product(h) \/ genkeys_insert(h)
        \/ genkeys_commit(h)
        \/ sellauth_link(h) \/ sellauth_link_get_product(h)
        \/ sellauth_link_insert(h) \/ sellauth_link_commit(h)
        \/ sellauth_pushkeys(h) \/ sellauth_pushkeys_select(h)
        \/ sellauth_pushkeys_insert(h) \/ sellauth_pushkeys_commit(h)
        \/ sellauth_append_deliverables(h)
        \/ lookupkey(h) \/ lookupkey_select(h) \/ lookupkey_select_log(h)
        \/ keystats(h)
        \/ recentredemptions(h)
        \/ StoreFail(h)
        \/ Finish(h)

Spec == Init /\ [][Next]_vars

\* The redemption path alone, with redeemers in several guilds: products
\* are created, keys generated and redeemed, log channels set.
redeem_any_guild(h) == redeem_in(h, AllGuilds)
setlogchannel_any_guild(h) == setlogchannel_in(h, AllGuilds)

NextTenants ==
    \E h \in Handlers :
        \/ redeem_any_guild(h) \/ redeem_select(h) \/ redeem_update(h)
        \/ redeem_insert(h) \/ redeem_commit(h) \/ redeem_get_product(h)
        \/ redeem_add_roles(h) \/ redeem_send(h)
        \/ log_redeem(h) \/ log_redeem_send(h)
        \/ setlogchannel_any_guild(h) \/ setlogchannel_commit(h)
        \/ product_add(h) \/ product_add_commit(h)
        \/ genkeys(h) \/ genkeys_get_product(h) \/ genkeys_insert(h)
        \/ genkeys_commit(h)
        \/ StoreFail(h)
        \/ Finish(h)

SpecTenants == Init /\ [][NextTenants]_vars

\* The commands that touch products, keys and the ledger, with redeemers in
\* several guilds and redemptions stamped at different times: products are
\* created and removed, keys generated and redeemed.
redeem_insert_any_time(h) == redeem_insert_at(h, AllTimes)

NextLedger ==
    \E h \in Handlers :
        \/ redeem_any_guild(h) \/ redeem_select(h) \/ redeem_update(h)
        \/ redeem_insert_any_time(h) \/ redeem_commit(h)
        \/ redeem_get_product(h) \/ redeem_add_roles(h) \/ redeem_send(h)
        \/ log_redeem(h)
        \/ product_add(h) \/ product_add_commit(h)
        \/ product_remove(h) \/ product_remove_map(h) \/ product_remove_commit(h)
        \/ genkeys(h) \/ genkeys_get_product(h) \/ genkeys_insert(h)
        \/ genkeys_commit(h)
        \/ StoreFail(h)
        \/ Finish(h)

SpecLedger == Init /\ [][NextLedger]_vars

\* recentredemptions applied to ledgers of up to MaxLedger rows.  The store
\* after n keys of one product were generated and redeemed one after the
\* other: the n-th key has digest n and the n-th ledger row records it.
StoreOfRedeemed(n) ==
    [ products     |-> {[name |-> <<"v">>, role_id |-> NULL]},
      keys         |-> [a \in 1..n |->
                          [key_hash |-> a, product_name |-> <<"v">>,
                           redeemed |-> 1]],
      redemptions  |-> [a \in 1..n |->
                          [key_hash |-> a, product_name |-> <<"v">>,
                           user_id |-> OWNER_ID, guild_id |-> "g1",
                           redeemed_at_utc |-> "t1"]],
      settings     |-> {},
      sellauth_map |-> {} ]

InitRecent ==
    /\ db \in {StoreOfRedeemed(n) : n \in 0..MaxLedger}
    /\ txn = db
    /\ wlock = NoWriter
    /\ pc = [h \in Handlers |-> "idle"]
    /\ frame = [h \in Handlers |-> IdleFrame]
    /\ reply = [h \in Handlers |-> NULL]

recentredemptions_any_limit(h) == recentredemptions_in(h, AllLimits)

NextRecent ==
    \E h \in Handlers :
        \/ recentredemptions_any_limit(h)
        \/ Finish(h)

SpecRecent == InitRecent /\ [][NextRecent]_vars

\* redeem and lookupkey applied to typed spellings of generated keys.  The
\* store after product "v" was added and genkeys generated two keys for it,
\* from the raw tokens raw1 and raw2.
StoreOfGenerated(raw1, raw2) ==
    [ products     |-> {[name |-> <<"v">>, role_id |-> NULL]},
      keys         |-> << [key_hash |-> generate_key(raw1)[2],
                           product_name |-> <<"v">>, redeemed |-> 0],
                          [key_hash |-> generate_key(raw2)[2],
                           product_name |-> <<"v">>, redeemed |-> 0] >>,
      redemptions  |-> <<>>,
      settings     |-> {},
      sellauth_map |-> {} ]

InitCanon ==
    /\ db \in {StoreOfGenerated(raw1, raw2) :
                  <<raw1, raw2>> \in
                      {t \in CanonTokens \X CanonTokens :
                          generate_key(t[1])[2] # generate_key(t[2])[2]}}
    /\ txn = db
    /\ wlock = NoWriter
    /\ pc = [h \in Handlers |-> "idle"]
    /\ frame = [h \in Handlers |-> IdleFrame]
    /\ reply = [h \in Handlers |-> NULL]

redeem_typed(h) == redeem_keys(h, Guilds, CanonInputs)
lookupkey_typed(h) == lookupkey_keys(h, CanonInputs)

NextCanon ==
    \E h \in Handlers :
        \/ redeem_typed(h) \/ redeem_select(h) \/ redeem_update(h)
        \/ redeem_insert(h) \/ redeem_commit(h) \/ redeem_get_product(h)
        \/ redeem_send(h) \/ log_redeem(h)
        \/ lookupkey_typed(h) \/ lookupkey_select(h) \/ lookupkey_select_log(h)
        \/ Finish(h)

SpecCanon == InitCanon /\ [][NextCanon]_vars


\* ================================================================== claims
\* Handler h has told its caller that the key was redeemed.
RedeemedMsgs == {"Redeemed", "Redeemed, role added", "Redeemed, could not add role"}
ReportsRedeemed(h) == frame[h].cmd = "redeem" /\ reply[h] \in RedeemedMsgs

\* The committed ledger rows that carry key hash kh.
LedgerRows(kh) == { n \in 1..Len(redemptions) : redemptions[n].key_hash = kh }

\* No committed Key Record has key hash kh.
NoKeyRecord(kh) == \A n \in 1..Len(keys) : keys[n].key_hash # kh

\* C1: redeem attempts against one key that overlap in time end with exactly
\* one of them reporting Redeemed: no two handlers report Redeemed for the
\* same key hash.
C1_OneRedeemedPerKey ==
    \A h1, h2 \in Handlers :
        (h1 # h2 /\ ReportsRedeemed(h1) /\ ReportsRedeemed(h2))
            => frame[h1].key_hash # frame[h2].key_hash

\* C2: in every committed state a used Key Record has exactly one Redemption
\* Record with its key_hash and an unused one has none.
C2_OneLedgerRowPerUsedKey ==
    \A n \in 1..Len(keys) :
        Cardinality(LedgerRows(keys[n].key_hash)) =
            (IF keys[n].redeemed = 1 THEN 1 ELSE 0)

\* C3: the used-flag flip and the ledger insert of a redeem attempt become
\* visible together or not at all.  Neither write of the attempt reaches the
\* committed store before its commit, and when the attempt raises after its
\* UPDATE was issued (at the INSERT or at the commit) the committed store
\* stays as it was and the attempt's transaction is gone.
C3_RedeemAllOrNothing ==
    [][\A h \in Handlers :
          /\ (pc[h] \in {"redeem_update", "redeem_insert"} /\ pc'[h] # pc[h])
                => db' = db
          /\ (pc[h] \in {"redeem_insert", "redeem_commit"}
                /\ reply'[h] = "OperationalError")
                => (db' = db /\ txn' = db /\ wlock' = NoWriter)]_vars

\* C3 witness: a redeem attempt raised after its UPDATE, and the store shows
\* its key unused with no ledger row.
C3_Witness ==
    \E h \in Handlers :
        /\ frame[h].cmd = "redeem"
        /\ pc[h] = "done"
        /\ reply[h] = "OperationalError"
        /\ frame[h].raised_at \in {"redeem_insert", "redeem_commit"}
        /\ \E n \in 1..Len(keys) :
              keys[n].key_hash = frame[h].key_hash /\ keys[n].redeemed = 0
        /\ LedgerRows(frame[h].key_hash) = {}
        /\ wlock = NoWriter

\* C4: a redeem attempt whose lookup runs after a redemption of its key has
\* committed reports "already used", creates no Redemption Record and changes
\* no Key Record.
C4_AlreadyRedeemed ==
    [][\A h \in Handlers :
          (/\ pc[h] = "redeem_select"
           /\ pc'[h] # pc[h]
           /\ \E n \in 1..Len(keys) :
                 keys[n].key_hash = frame[h].key_hash /\ keys[n].redeemed = 1)
          => (/\ pc'[h] = "done"
              /\ reply'[h] = "already used"
              /\ db' = db
              /\ txn' = txn
              /\ wlock' = wlock)]_vars

\* C4 witness: one handler has redeemed a key and is finished, and another
\* attempt on the same key, in another guild, was told "already used".
C4_Witness ==
    \E h1, h2 \in Handlers :
        /\ h1 # h2
        /\ ReportsRedeemed(h1) /\ pc[h1] = "done"
        /\ frame[h2].cmd = "redeem" /\ pc[h2] = "done"
        /\ reply[h2] = "already used"
        /\ frame[h2].key_hash = frame[h1].key_hash
        /\ frame[h2].guild # frame[h1].guild
        /\ Cardinality(LedgerRows(frame[h1].key_hash)) = 1

\* C5: a redeem whose canonical digest matches no Key Record reports
\* "Invalid key", leaves every table unchanged, adds no role and sends no
\* notification.
C5_InvalidKey ==
    [][\A h \in Handlers :
          (/\ pc[h] = "redeem_select"
           /\ pc'[h] # pc[h]
           /\ NoKeyRecord(frame[h].key_hash))
          => (/\ pc'[h] = "done"
              /\ reply'[h] = "Invalid key"
              /\ db' = db
              /\ txn' = txn
              /\ wlock' = wlock
              /\ ~frame'[h].role_added
              /\ frame'[h].notified = <<>>)]_vars

\* C5 witness: a redeem was told "Invalid key" while the store holds keys.
C5_Witness ==
    \E h \in Handlers :
        /\ frame[h].cmd = "redeem"
        /\ pc[h] = "done"
        /\ reply[h] = "Invalid key"
        /\ Len(keys) > 0
        /\ NoKeyRecord(frame[h].key_hash)

\* C6: the used flag is monotonic: a committed Key Record with used = true is
\* still there, with the same hash and used = true, after every step.
C6_UsedIsMonotonic ==
    [][\A n \in 1..Len(keys) :
          keys[n].redeemed = 1
          => (/\ n <= Len(keys')
              /\ keys'[n].key_hash = keys[n].key_hash
              /\ keys'[n].redeemed = 1)]_vars

\* C6 witness: a used key is still used after its product was removed and
\* another key was generated after it.
C6_Witness ==
    \E n \in 1..Len(keys) :
        /\ keys[n].redeemed = 1
        /\ products = {}
        /\ n < Len(keys)

\* A generation command of handler h has ended.
GenerationDone(h) ==
    /\ frame[h].cmd \in {"genkeys", "sellauth_pushkeys"}
    /\ pc[h] = "done"

\* C7: generation with an amount outside 1..50 is refused and generation
\* with an amount inside it, for a product that passed the handler's
\* product/link check and with no store fault, succeeds with amount pairwise
\* distinct plaintext keys.
C7_GenerateInRangeSucceeds ==
    \A h \in Handlers :
        GenerationDone(h) =>
            /\ AmountOutOfRange(frame[h].amount)
                  => reply[h] = "Amount must be 1-50"
            /\ (/\ ~AmountOutOfRange(frame[h].amount)
                /\ reply[h] \notin {"Product not found", "Not linked",
                                    "OperationalError"})
                  => /\ reply[h] \in {"Generated", "Pushed", "SellAuth push failed"}
                     /\ Len(frame[h].out) = frame[h].amount
                     /\ \A a, b \in 1..Len(frame[h].out) :
                           a # b => frame[h].out[a] # frame[h].out[b]

\* C8: a digest collision during generation is never surfaced as a failure
\* of the batch.
C8_CollisionNeverSurfaces ==
    \A h \in Handlers :
        GenerationDone(h) => reply[h] # "IntegrityError"

\* C9: when genkeys or sellauth_pushkeys commits Key Records, the product
\* they name is in the Product Registry.
C9_ProductExistsAtKeyCommit ==
    [][\A h \in Handlers :
          (/\ pc[h] \in {"genkeys_commit", "sellauth_pushkeys_commit"}
           /\ keys' # keys)
          => \E r \in products' : r.name = frame[h].pname]_vars

\* C10: every external-delivery mapping row names an existing product.
C10_MapNamesExistingProduct ==
    \A m \in sellauth_map : \E r \in products : r.name = m.product_name

\* C11: when the push of sellauth_pushkeys fails, the caller is told
\* "SellAuth push failed", the step changes nothing in the store, and every
\* one of the amount keys of the call is a committed Key Record of the
\* product, unused unless a redemption of it has been committed meanwhile;
\* a redeem that finds such an unused record goes on to redeem it.
C11_PushFailureKeepsKeys ==
    [][\A h \in Handlers :
          /\ (pc[h] = "sellauth_append_deliverables"
                /\ reply'[h] = "SellAuth push failed")
             => /\ db' = db
                /\ txn' = txn
                /\ Len(frame[h].out) = frame[h].amount
                /\ \A a \in 1..Len(frame[h].out) :
                      \E n \in 1..Len(db'.keys) :
                          /\ db'.keys[n].key_hash = sha256_hex(frame[h].out[a])
                          /\ db'.keys[n].product_name = frame[h].pname
                          /\ \/ db'.keys[n].redeemed = 0
                             \/ \E m \in 1..Len(db'.redemptions) :
                                   db'.redemptions[m].key_hash =
                                       db'.keys[n].key_hash
          /\ (/\ pc[h] = "redeem_select"
              /\ pc'[h] # pc[h]
              /\ \E n \in 1..Len(keys) :
                    keys[n].key_hash = frame[h].key_hash /\ keys[n].redeemed = 0)
             => pc'[h] = "redeem_update"]_vars

\* C11 witness: a push of a full batch has failed, its keys are Key Records,
\* and another handler has redeemed one of them.
C11_Witness ==
    \E h1, h2 \in Handlers :
        /\ frame[h1].cmd = "sellauth_pushkeys"
        /\ pc[h1] = "done"
        /\ reply[h1] = "SellAuth push failed"
        /\ Len(frame[h1].out) = MaxBatch
        /\ \A a \in 1..Len(frame[h1].out) :
              ~NoKeyRecord(sha256_hex(frame[h1].out[a]))
        /\ ReportsRedeemed(h2)
        /\ \E a \in 1..Len(frame[h1].out) :
              frame[h2].key_hash = sha256_hex(frame[h1].out[a])

\* C12: when the role grant of a committed redemption fails or cannot be
\* performed, the store is left as committed (the Key Record used, its
\* Redemption Record in the ledger) and the redeemer is sent the success
\* message flagged "could not add role", not an error.
C12_GrantFailureKeepsRedemption ==
    [][\A h \in Handlers :
          /\ (pc[h] = "redeem_add_roles" /\ pc'[h] # pc[h])
             => (db' = db /\ txn' = txn /\ wlock' = wlock)
          /\ (/\ pc[h] = "redeem_send"
              /\ pc'[h] # pc[h]
              /\ frame[h].role_id # NULL
              /\ ~frame[h].role_added)
             => /\ reply'[h] = "Redeemed, could not add role"
                /\ db' = db
                /\ \E n \in 1..Len(db'.keys) :
                      /\ db'.keys[n].key_hash = frame[h].key_hash
                      /\ db'.keys[n].redeemed = 1
                /\ \E m \in 1..Len(db'.redemptions) :
                      /\ db'.redemptions[m].key_hash = frame[h].key_hash
                      /\ db'.redemptions[m].user_id = frame[h].user
                      /\ db'.redemptions[m].guild_id = frame[h].guild]_vars

\* C12 witness: a redeem whose role grant failed has ended with the flagged
\* success message; its key is used and has its ledger row.
C12_Witness ==
    \E h \in Handlers :
        /\ frame[h].cmd = "redeem"
        /\ pc[h] = "done"
        /\ frame[h].role_id # NULL
        /\ ~frame[h].role_added
        /\ reply[h] = "Redeemed, could not add role"
        /\ \E n \in 1..Len(keys) :
              keys[n].key_hash = frame[h].key_hash /\ keys[n].redeemed = 1
        /\ LedgerRows(frame[h].key_hash) # {}

\* C13: product_remove(name) that ends with "Product removed" has deleted
\* the product row and the mapping row of that name and nothing else: no
\* step of it changes a Key Record or a Redemption Record.  A redeem that
\* finds an unused key goes on to redeem it whether or not its product is
\* still registered, and when the product is gone it resolves no role and
\* reports "Redeemed" with the product name stored in the Key Record.
C13_ProductRemoveFrame ==
    [][\A h \in Handlers :
          /\ (frame'[h].cmd = "product_remove" /\ pc'[h] # pc[h])
             => (db'.keys = db.keys /\ db'.redemptions = db.redemptions)
          /\ (pc[h] = "product_remove_commit" /\ reply'[h] = "Product removed")
             => /\ db'.products =
                      {r \in db.products : r.name # frame[h].pname}
                /\ db'.sellauth_map =
                      {r \in db.sellauth_map : r.product_name # frame[h].pname}
                /\ db'.settings = db.settings
          /\ (pc[h] = "redeem_select" /\ pc'[h] # pc[h])
             => \A n \in 1..Len(keys) :
                   (/\ keys[n].key_hash = frame[h].key_hash
                    /\ keys[n].redeemed = 0)
                   => (/\ pc'[h] = "redeem_update"
                       /\ frame'[h].product_name = keys[n].product_name)
          /\ (/\ pc[h] = "redeem_get_product"
              /\ pc'[h] # pc[h]
              /\ \A r \in products : r.name # frame[h].product_name)
             => (pc'[h] = "redeem_send" /\ frame'[h].role_id = NULL)
          /\ (pc[h] = "redeem_send" /\ pc'[h] # pc[h] /\ frame[h].role_id = NULL)
             => (/\ reply'[h] = "Redeemed"
                 /\ ~frame'[h].role_added
                 /\ \E n \in 1..Len(keys) :
                       /\ keys[n].key_hash = frame[h].key_hash
                       /\ keys[n].product_name = frame'[h].product_name)]_vars

\* C13 witness: a product was removed, product and mapping rows are gone,
\* and a key of that product has been redeemed with no role resolved.
C13_Witness ==
    \E h1, h2 \in Handlers :
        /\ frame[h1].cmd = "product_remove"
        /\ reply[h1] = "Product removed"
        /\ products = {}
        /\ sellauth_map = {}
        /\ frame[h2].cmd = "redeem"
        /\ reply[h2] = "Redeemed"
        /\ frame[h2].product_name = frame[h1].pname
        /\ frame[h2].role_id = NULL
        /\ \E n \in 1..Len(keys) :
              /\ keys[n].key_hash = frame[h2].key_hash
              /\ keys[n].product_name = frame[h1].pname
              /\ keys[n].redeemed = 1

\* C14: no step of lookupkey changes the store.  Its first SELECT ends it
\* with "Key not found" iff no Key Record has the canonical digest of the
\* input, and otherwise reads the used flag of that record; it then reports
\* UNUSED iff the flag it read is 0, and otherwise USED together with the
\* newest Redemption Record of that digest.
C14_LookupFrame ==
    [][\A h \in Handlers :
          /\ (frame'[h].cmd = "lookupkey" /\ pc'[h] # pc[h])
             => (db' = db /\ txn' = txn /\ wlock' = wlock)
          /\ (pc[h] = "lookupkey_select" /\ pc'[h] # pc[h])
             => /\ frame[h].key_hash = sha256_hex(canon(frame[h].key))
                /\ reply'[h] = "Key not found"
                      <=> NoKeyRecord(frame[h].key_hash)
                /\ ~NoKeyRecord(frame[h].key_hash)
                      => /\ pc'[h] = "lookupkey_select_log"
                         /\ \E n \in 1..Len(keys) :
                               /\ keys[n].key_hash = frame[h].key_hash
                               /\ frame'[h].redeemed_flag = keys[n].redeemed
          /\ (pc[h] = "lookupkey_select_log" /\ pc'[h] # pc[h])
             => /\ reply'[h] = "UNUSED" <=> frame[h].redeemed_flag = 0
                /\ frame[h].redeemed_flag # 0
                      => /\ reply'[h] = "USED"
                         /\ \E m \in LedgerRows(frame[h].key_hash) :
                               /\ frame'[h].rrow = <<redemptions[m]>>
                               /\ \A k \in LedgerRows(frame[h].key_hash) :
                                     k <= m]_vars

\* C14 witness: a lookup of a used key has reported USED with a Redemption
\* Record of that key.
C14_Witness ==
    \E h \in Handlers :
        /\ frame[h].cmd = "lookupkey"
        /\ pc[h] = "done"
        /\ reply[h] = "USED"
        /\ frame[h].rrow # <<>>
        /\ \E n \in 1..Len(keys) :
              keys[n].key_hash = frame[h].key_hash /\ keys[n].redeemed = 1
        /\ \E m \in LedgerRows(frame[h].key_hash) :
              frame[h].rrow[1] = redemptions[m]

\* The number of Key Records of product name p in store image img whose used
\* flag is flag.
KeyCount(img, p, flag) ==
    Cardinality({n \in 1..Len(img.keys) : /\ img.keys[n].product_name = p
                                          /\ img.keys[n].redeemed = flag})

\* C15: keystats reports, for each product name that has a Key Record, its
\* number of used and of unused Key Records and their sum as total, and the
\* commit of a redemption that goes on to report success moves exactly one
\* unit from unused to used for the product of the key and changes no other
\* product's counts.
C15_StatsCountRedemptions ==
    [][\A h \in Handlers :
          /\ (pc[h] = "idle" /\ frame'[h].cmd = "keystats")
             => /\ \A n \in 1..Len(keys) :
                      \E r \in frame'[h].rows :
                          r.product_name = keys[n].product_name
                /\ \A r \in frame'[h].rows :
                      /\ r.used = KeyCount(db, r.product_name, 1)
                      /\ r.unused = KeyCount(db, r.product_name, 0)
                      /\ r.total = r.used + r.unused
                      /\ r.total > 0
          /\ (pc[h] = "redeem_commit" /\ pc'[h] = "redeem_get_product")
             => \A r \in key_stats(db) :
                   \E r2 \in key_stats(db') :
                       /\ r2.product_name = r.product_name
                       /\ r2.total = r.total
                       /\ IF r.product_name = frame[h].product_name
                          THEN r2.used = r.used + 1 /\ r2.unused = r.unused - 1
                          ELSE r2.used = r.used /\ r2.unused = r.unused]_vars

\* C16: the Redemption Ledger is append-only: every committed Redemption
\* Record is, after every step of every operation, still at its place in
\* the ledger with the same key_hash, product, redeemer, tenant and
\* timestamp.
C16_LedgerAppendOnly ==
    [][\A n \in 1..Len(redemptions) :
          /\ n <= Len(redemptions')
          /\ redemptions'[n] = redemptions[n]]_vars

\* C16 witness: the ledger holds two rows of different timestamps for one
\* key, the product they name has been removed, and a further attempt on
\* the key has been refused.
C16_Witness ==
    /\ Len(redemptions) = 2
    /\ redemptions[1].redeemed_at_utc # redemptions[2].redeemed_at_utc
    /\ redemptions[1].key_hash = redemptions[2].key_hash
    /\ \A r \in products : r.name # redemptions[1].product_name
    /\ \E h \in Handlers :
          /\ frame[h].cmd = "redeem"
          /\ reply[h] = "already used"
          /\ frame[h].key_hash = redemptions[1].key_hash

\* The number of rows recent(limit) is to return from a ledger of n rows:
\* min(max(1, min(20, limit)), n), spelt out by cases.
RecentCount(limit, n) ==
    LET want == IF limit < 1 THEN 1 ELSE IF limit > 20 THEN 20 ELSE limit
    IN IF want < n THEN want ELSE n

\* C17: for every integer limit, recentredemptions returns the
\* min(max(1, min(20, limit)), ledger size) most recently appended
\* Redemption Records, newest first, and changes no state of the store.
C17_RecentNewestFirst ==
    [][\A h \in Handlers :
          (pc[h] = "idle" /\ frame'[h].cmd = "recentredemptions")
          => LET n == Len(redemptions)
                 k == RecentCount(frame'[h].limit, n)
                 rows == frame'[h].recent
             IN /\ Len(rows) = k
                /\ \A a \in 1..k : rows[a] = redemptions[n + 1 - a]
                /\ db' = db
                /\ txn' = txn
                /\ wlock' = wlock]_vars

\* C17 witness: with more than 20 rows in the ledger and a limit above 20,
\* the 20 newest rows were returned, newest first.
C17_Witness ==
    \E h \in Handlers :
        /\ frame[h].cmd = "recentredemptions"
        /\ pc[h] = "done"
        /\ frame[h].limit > LIMIT_MAX
        /\ Len(redemptions) > LIMIT_MAX
        /\ Len(frame[h].recent) = LIMIT_MAX
        /\ frame[h].recent[1] = redemptions[Len(redemptions)]
        /\ frame[h].recent[LIMIT_MAX] =
              redemptions[Len(redemptions) + 1 - LIMIT_MAX]

\* Two characters are the same letter in either case.
SameLetter(c, d) ==
    \/ c = d
    \/ <<c, d>> \in {<<"a", "A">>, <<"b", "B">>, <<"c", "C">>}
    \/ <<d, c>> \in {<<"a", "A">>, <<"b", "B">>, <<"c", "C">>}

\* The typed string x differs from the plaintext key k only by blanks around
\* it and by letter case.
IsVariant(x, k) ==
    \E lead \in 0..Len(x), trail \in 0..Len(x) :
        /\ lead + Len(k) + trail = Len(x)
        /\ \A n \in 1..lead : x[n] = SPACE
        /\ \A n \in 1..trail : x[Len(x) + 1 - n] = SPACE
        /\ \A n \in 1..Len(k) : SameLetter(x[lead + n], k[n])

\* The ids of the Key Records generated from a raw token whose plaintext
\* key the typed string x is a variant of.
KeysTypedAs(x) ==
    { n \in 1..Len(keys) :
        \E raw \in CanonTokens :
            /\ IsVariant(x, generate_key(raw)[1])
            /\ keys[n].key_hash = generate_key(raw)[2] }

\* C18: a redeem or lookupkey input that differs from a generated plaintext
\* key only by surrounding whitespace or letter case gets the digest stored
\* for that key, so its SELECT finds that Key Record, and a redeem of it
\* marks exactly that record used and records its digest in the ledger.
C18_CanonicalDigest ==
    [][\A h \in Handlers :
          /\ (pc[h] = "idle"
                /\ pc'[h] \in {"redeem_select", "lookupkey_select"})
             => \A raw \in CanonTokens :
                   IsVariant(frame'[h].key, generate_key(raw)[1])
                   => frame'[h].key_hash = generate_key(raw)[2]
          /\ (/\ pc[h] \in {"redeem_select", "lookupkey_select"}
              /\ pc'[h] # pc[h]
              /\ KeysTypedAs(frame[h].key) # {})
             => /\ reply'[h] \notin {"Invalid key", "Key not found"}
                /\ \A n \in KeysTypedAs(frame[h].key) :
                      keys[n].redeemed = 0
                      => pc'[h] \in {"redeem_update", "lookupkey_select_log"}
          /\ (pc[h] = "redeem_commit" /\ pc'[h] # pc[h])
             => /\ Len(db'.keys) = Len(db.keys)
                /\ \A n \in 1..Len(db.keys) :
                      IF n \in KeysTypedAs(frame[h].key)
                      THEN db'.keys[n].redeemed = 1
                      ELSE db'.keys[n] = db.keys[n]
                /\ KeysTypedAs(frame[h].key) # {}
                /\ db'.redemptions[Len(db'.redemptions)].key_hash
                      = frame[h].key_hash]_vars

\* C18 witness: a key typed in lower case between blanks has been redeemed:
\* its Key Record is used and the other Key Record is not.
C18_Witness ==
    \E h \in Handlers :
        /\ ReportsRedeemed(h)
        /\ Len(frame[h].key) = Len(frame[h].key_clean) + 2
        /\ frame[h].key # str_upper(frame[h].key)
        /\ \E n, m \in 1..Len(keys) :
              /\ keys[n].key_hash = frame[h].key_hash
              /\ keys[n].redeemed = 1
              /\ keys[m].redeemed = 0
        /\ LedgerRows(frame[h].key_hash) # {}

\* The committed ledger has a row for the redemption handler h reports.
RedemptionCommitted(h) ==
    /\ \E n \in 1..Len(keys) :
          keys[n].key_hash = frame[h].key_hash /\ keys[n].redeemed = 1
    /\ \E m \in 1..Len(redemptions) :
          /\ redemptions[m].key_hash = frame[h].key_hash
          /\ redemptions[m].user_id = frame[h].user
          /\ redemptions[m].guild_id = frame[h].guild

\* C19: log_redeem runs only after the redemption has committed and its
\* result was sent to the redeemer; it goes on to emit the notification iff
\* the settings it reads at that moment hold a channel for the redeeming
\* guild (no row, or a row set to none, means no notification), and emits
\* it to that channel; the emission step, delivered or failed, changes
\* neither the store nor the result sent.
C19_NotifyAfterCommit ==
    [][\A h \in Handlers :
          /\ (pc[h] = "log_redeem" /\ pc'[h] # pc[h])
             => /\ reply[h] \in RedeemedMsgs
                /\ RedemptionCommitted(h)
                /\ pc'[h] = "log_redeem_send"
                      <=> \E r \in settings : /\ r.guild_id = frame[h].guild
                                              /\ r.log_channel_id # NULL
                /\ pc'[h] = "log_redeem_send"
                      => \E r \in settings :
                            /\ r.guild_id = frame[h].guild
                            /\ r.log_channel_id = frame'[h].channel
          /\ (frame[h].notified = <<>> /\ frame'[h].notified # <<>>)
             => /\ pc[h] = "log_redeem_send"
                /\ reply[h] \in RedeemedMsgs
                /\ RedemptionCommitted(h)
                /\ frame'[h].notified[1].channel = frame[h].channel
          /\ (pc[h] = "log_redeem_send" /\ pc'[h] # pc[h])
             => /\ db' = db
                /\ txn' = txn
                /\ wlock' = wlock
                /\ reply'[h] = reply[h]]_vars

\* C19 witness: a redemption in a guild with a log channel has been
\* notified to that channel, while the other guild has no channel set.
C19_Witness ==
    \E h \in Handlers :
        /\ ReportsRedeemed(h)
        /\ pc[h] = "done"
        /\ frame[h].notified # <<>>
        /\ RedemptionCommitted(h)
        /\ \E r \in settings :
              /\ r.guild_id = frame[h].guild
              /\ r.log_channel_id = frame[h].notified[1].channel
        /\ \A r \in settings : r.guild_id = frame[h].guild

\* The await points of the insert loops and of the commits after them.
BatchInsertPcs == {"genkeys_insert", "sellauth_pushkeys_insert"}
BatchCommitPcs == {"genkeys_commit", "sellauth_pushkeys_commit"}

\* C20: a generation batch is all-or-nothing in the store.  No insert of
\* the loop reaches the committed store; the single commit after the loop
\* appends all amount Key Records of the batch at once; and when an insert
\* or the commit raises, the store is as before the batch, the transaction
\* of the batch is gone, none of the keys inserted so far is a Key Record,
\* and no key is returned or pushed.
C20_BatchAllOrNothing ==
    [][\A h \in Handlers :
          /\ (pc[h] \in BatchInsertPcs
                /\ (pc'[h] # pc[h] \/ frame'[h] # frame[h]))
             => db' = db
          /\ (/\ pc[h] \in BatchInsertPcs \cup BatchCommitPcs
              /\ reply'[h] \in {"IntegrityError", "OperationalError"})
             => /\ db' = db
                /\ wlock' # h
                /\ wlock = h => (txn' = db /\ wlock' = NoWriter)
                /\ \A a \in 1..Len(frame'[h].out) :
                      \A n \in 1..Len(db'.keys) :
                          db'.keys[n].key_hash # sha256_hex(frame'[h].out[a])
                /\ frame'[h].pushed = <<>>
          /\ (/\ pc[h] \in BatchCommitPcs
              /\ pc'[h] # pc[h]
              /\ reply'[h] \notin {"IntegrityError", "OperationalError"})
             => /\ Len(frame[h].out) = frame[h].amount
                /\ Len(db'.keys) = Len(db.keys) + frame[h].amount
                /\ \A n \in 1..Len(db.keys) : db'.keys[n] = db.keys[n]
                /\ \A a \in 1..frame[h].amount :
                      db'.keys[Len(db.keys) + a] =
                          [key_hash |-> sha256_hex(frame[h].out[a]),
                           product_name |-> frame[h].pname,
                           redeemed |-> 0]
          /\ (reply'[h] \in {"Generated", "Pushed"} /\ reply[h] # reply'[h])
             => \A a \in 1..Len(frame'[h].out) :
                   \E n \in 1..Len(db'.keys) :
                       db'.keys[n].key_hash = sha256_hex(frame'[h].out[a])]_vars

\* C20 witness: the second insert of a batch of two has raised; the key of
\* the first insert is not a Key Record and nothing was returned or pushed.
C20_Witness ==
    \E h \in Handlers :
        /\ GenerationDone(h)
        /\ reply[h] = "IntegrityError"
        /\ frame[h].raised_at \in BatchInsertPcs
        /\ frame[h].amount = 2
        /\ Len(frame[h].out) = 1
        /\ NoKeyRecord(sha256_hex(frame[h].out[1]))
        /\ frame[h].pushed = <<>>
        /\ wlock = NoWriter

\* C21: in every reachable state each committed Redemption Record carries
\* the key_hash of a committed Key Record that is used and has the product
\* name the Redemption Record carries; no ledger row refers to a key that
\* does not exist or is unused.
C21_LedgerRefersToUsedKey ==
    \A m \in 1..Len(redemptions) :
        /\ \E n \in 1..Len(keys) : keys[n].key_hash = redemptions[m].key_hash
        /\ \A n \in 1..Len(keys) :
              keys[n].key_hash = redemptions[m].key_hash
              => /\ keys[n].redeemed = 1
                 /\ keys[n].product_name = redemptions[m].product_name

\* C21 witness: the ledger has a row for a used key, next to a Key Record
\* that is unused, after the product of the keys was removed.
C21_Witness ==
    /\ Len(redemptions) > 0
    /\ \E n, k \in 1..Len(keys) :
          /\ keys[n].key_hash = redemptions[1].key_hash
          /\ keys[n].redeemed = 1
          /\ keys[k].redeemed = 0
    /\ \A r \in products : r.name # redemptions[1].product_name

====
